---- MODULE Spec2Model ----
(***************************************************************************)
(* Scholarship-bot: the dialogue core (src/main.py, class ScholarshipBot)  *)
(* and the session service around it (src/server.py).                      *)
(*                                                                         *)
(* The text-generation and search services are external: every call to     *)
(* them is a nondeterministic choice of what the service does (fails, or   *)
(* answers with one of a few texts).  Each Python method is an operator    *)
(* that yields the SET of outcomes the method can have.                    *)
(*                                                                         *)
(* Three specifications share the state:                                   *)
(*   Spec        the dialogue of one session: POST /chat requests and      *)
(*               resets that follow each other at once, each run to its    *)
(*               end, with every message and every extraction answer of    *)
(*               the model;                                                *)
(*   SpecServer  the service over time: chat, profile, reset and stats     *)
(*               requests arriving up to three hours apart, the sweep of   *)
(*               expired sessions, a few dialogues;                        *)
(*   SpecLoop    chat_endpoint step by step for requests that arrive       *)
(*               together, with session_lock and the event loop.           *)
(***************************************************************************)
EXTENDS Integers, Sequences, FiniteSets, TLC

(***************************************************************************)
(* Bounds of the model.                                                    *)
(***************************************************************************)
\* successful turns of one session (caps sessions[..]['message_count'])
MaxMessages == 3
\* the clock stops at MaxTime quarter hours after the module was loaded
MaxTime == 12
\* sessions created (uuids drawn) in one run
MaxSessions == 2
\* chat requests in flight in one run of the event loop
MaxRequests == 3
\* requests the service answers in one run over time
MaxServed == 4

(***************************************************************************)
(* Strings are sequences of characters, so that str.strip() and            *)
(* str.lower() are computed and not assumed.                               *)
(***************************************************************************)
Whitespace == {" ", "\t", "\n"}

RECURSIVE LStrip(_)
LStrip(s) ==
    IF s = <<>> THEN <<>>
    ELSE IF Head(s) \in Whitespace THEN LStrip(Tail(s)) ELSE s

RECURSIVE RStrip(_)
RStrip(s) ==
    IF s = <<>> THEN <<>>
    ELSE IF s[Len(s)] \in Whitespace THEN RStrip(SubSeq(s, 1, Len(s) - 1)) ELSE s

\* str.strip(): leading and trailing whitespace removed, inner kept
Strip(s) == RStrip(LStrip(s))

\* str.lower() on one character (the capitals the inputs use)
LowerChar(c) ==
    CASE c = "Y" -> "y"
      [] c = "E" -> "e"
      [] c = "S" -> "s"
      [] c = "N" -> "n"
      [] c = "O" -> "o"
      [] c = "K" -> "k"
      [] OTHER -> c

\* str.lower()
Lower(s) == [i \in 1..Len(s) |-> LowerChar(s[i])]

(***************************************************************************)
(* JSON / Python values, as far as the merge and the profile's methods     *)
(* tell them apart: a string, a number, a list of strings, and the bound   *)
(* method that hasattr() also finds on the profile object.                 *)
(***************************************************************************)
StrV(s) == [t |-> "str", s |-> s, n |-> 0, l |-> {}]
NumV(n) == [t |-> "num", s |-> <<>>, n |-> n, l |-> {}]
ListV(l) == [t |-> "list", s |-> <<>>, n |-> 0, l |-> l]
MethodV == [t |-> "method", s |-> <<>>, n |-> 0, l |-> {}]

\* Python truthiness: "" , 0 and [] are falsy
Truthy(v) ==
    CASE v.t = "str" -> v.s # <<>>
      [] v.t = "num" -> v.n # 0
      [] v.t = "list" -> v.l # {}
      [] OTHER -> TRUE

(***************************************************************************)
(* ConversationState                                                       *)
(***************************************************************************)
PROFILING == "profiling"
SEARCHING == "searching"
RESPONDING == "responding"
COMPLETE == "complete"
ConversationState == {PROFILING, SEARCHING, RESPONDING, COMPLETE}

(***************************************************************************)
(* UserProfile: the nine dataclass fields, and the attribute is_complete,  *)
(* which setattr() can shadow on the instance like any other name (of the  *)
(* further names hasattr() finds, to_search_context and the dunder ones,   *)
(* none is kept here).                                                     *)
(***************************************************************************)
RequiredFields == <<"field_of_study", "education_level", "location", "citizenship">>
ProfileFields ==
    {"field_of_study", "education_level", "gpa", "location", "citizenship",
     "financial_need", "extracurriculars", "research_interests", "career_goals"}
ProfileAttrs == ProfileFields \cup {"is_complete"}

\* UserProfile() after __post_init__
UserProfile ==
    [a \in ProfileAttrs |->
        CASE a = "gpa" -> NumV(0)
          [] a \in {"extracurriculars", "research_interests"} -> ListV({})
          [] a = "is_complete" -> MethodV
          [] OTHER -> StrV(<<>>)]

\* all(field.strip() for field in required_fields): left to right, stopping at
\* the first falsy one; .strip() exists on strings only.
RECURSIVE AllStripped(_, _)
AllStripped(p, fields) ==
    IF fields = <<>> THEN "true"
    ELSE LET v == p[Head(fields)] IN
         IF v.t # "str" THEN "raise"
         ELSE IF Strip(v.s) = <<>> THEN "false"
         ELSE AllStripped(p, Tail(fields))

\* UserProfile.is_complete(): "true", "false", or "raise" (the attribute was
\* shadowed by a value that is not callable, or a required field is no string)
is_complete(p) ==
    IF p["is_complete"].t # "method" THEN "raise"
    ELSE AllStripped(p, RequiredFields)

NotSpecified == StrV(<<"N", "/", "S">>)

\* UserProfile.to_search_context() raises a TypeError when gpa cannot be
\* compared with 0 or research_interests cannot be joined
to_search_context_raises(p) ==
    \/ p["gpa"].t \notin {"num"}
    \/ (Truthy(p["research_interests"]) /\ p["research_interests"].t \notin {"str", "list"})

\* UserProfile.to_search_context(): the fields the text shows, in its order
to_search_context(p) ==
    << p["field_of_study"], p["education_level"], p["location"], p["citizenship"],
       IF p["gpa"].t = "num" /\ p["gpa"].n > 0 THEN p["gpa"] ELSE NotSpecified,
       p["financial_need"],
       IF Truthy(p["research_interests"]) THEN p["research_interests"] ELSE NotSpecified,
       p["career_goals"] >>

(***************************************************************************)
(* Field Extractor: ScholarshipBot._extract_profile_info                   *)
(***************************************************************************)
\* One (key, value) pair of the parsed JSON object:
\*   if hasattr(self.user_profile, key) and value:
\*       list  -> list(set((getattr(..) or []) + value)), a TypeError when the
\*                current value is truthy and no list
\*       other -> setattr(key, value)
\* Yields the profile and whether the pair raised.
MergePair(p, key, value) ==
    IF key \in DOMAIN p /\ Truthy(value)
    THEN IF value.t = "list"
         THEN IF ~Truthy(p[key])
              THEN [p |-> [p EXCEPT ![key] = ListV(value.l)], raised |-> FALSE]
              ELSE IF p[key].t = "list"
              THEN [p |-> [p EXCEPT ![key] = ListV(p[key].l \cup value.l)], raised |-> FALSE]
              ELSE [p |-> p, raised |-> TRUE]
         ELSE [p |-> [p EXCEPT ![key] = value], raised |-> FALSE]
    ELSE [p |-> p, raised |-> FALSE]

\* for key, value in extracted_data.items(): in the object's order; an
\* exception ends the loop and keeps what was merged before it
RECURSIVE MergeDelta(_, _)
MergeDelta(p, delta) ==
    IF delta = <<>> THEN p
    ELSE LET r == MergePair(p, Head(delta).k, Head(delta).v) IN
         IF r.raised THEN r.p ELSE MergeDelta(r.p, Tail(delta))

KV(k, v) == [k |-> k, v |-> v]

s_ca == <<"c", "a">>
s_cs == <<"c", "s">>
s_ms == <<"m", "s">>
s_to == <<"t", "o">>

\* The JSON objects the extraction call is taken to answer with.
Deltas ==
    { <<>>,
      << KV("citizenship", StrV(s_ca)), KV("field_of_study", StrV(s_cs)) >>,
      << KV("education_level", StrV(s_ms)), KV("location", StrV(s_to)) >>,
      << KV("field_of_study", StrV(s_cs)) >>,
      << KV("education_level", StrV(s_ms)), KV("location", StrV(<<" ">>)) >>,
      << KV("location", StrV(<<" ">> \o s_to \o <<"\n">>)), KV("gpa", NumV(3)) >>,
      << KV("location", NumV(5)) >>,
      << KV("gpa", StrV(<<"3">>)) >>,
      << KV("research_interests", ListV({"ai"})), KV("extracurriculars", ListV({"chess"})) >>,
      << KV("research_interests", ListV({"ml"})) >>,
      << KV("research_interests", StrV(<<"a", "i">>)) >>,
      << KV("hobby", StrV(<<"x">>)), KV("citizenship", StrV(<<>>)),
         KV("gpa", NumV(0)), KV("research_interests", ListV({})) >>,
      << KV("is_complete", StrV(<<"y">>)) >>,
      << KV("field_of_study", ListV({"cs"})), KV("career_goals", StrV(<<"d">>)) >>,
      << KV("financial_need", StrV(<<"h">>)), KV("career_goals", StrV(<<"d">>)) >> }

\* What the extraction generation call can do: raise, answer with text that is
\* no JSON, with JSON that is no object, or with a JSON object.
ExtractionOutputs ==
    { [kind |-> "fail", delta |-> <<>>],
      [kind |-> "garbage", delta |-> <<>>],
      [kind |-> "nonobject", delta |-> <<>>] }
    \cup { [kind |-> "object", delta |-> d] : d \in Deltas }

\* _extract_profile_info: every exception is caught inside (lines 331, 336);
\* only a parsed object is merged.
extract_profile_info(p, x) ==
    IF x.kind = "object" THEN MergeDelta(p, x.delta) ELSE p

(***************************************************************************)
(* The bot of one session and what one method call yields.                 *)
(***************************************************************************)
VARIABLES
    state,                  \* ScholarshipBot.state
    user_profile,           \* ScholarshipBot.user_profile
    search_results,         \* ScholarshipBot.search_results ([] or the bundle)
    pending_confirmation,   \* ScholarshipBot.pending_confirmation
    sessions,               \* session id -> [last_activity, message_count]
    LAST_CLEANUP,           \* the time of the last sweep (of the load, before it)
    now,                    \* datetime.now(), in quarter hours since the load
    uuids,                  \* how many session ids uuid.uuid4() has given out
    expired_sessions,       \* what the sweep of the last request deleted
    endpoint,               \* the endpoint of the last request
    session_id,             \* the session id the last request named or was given
    in_flight,              \* where each chat request in flight stands in chat_endpoint
    session_lock,           \* the request that holds session_lock, or Unlocked
    served,                 \* how many requests the service over time has answered
    user_input,             \* the message of the last request
    extracted,              \* what the extraction call of the last request did
    handler,                \* the method process_message handed the last message to
    calls,                  \* the service calls the last request made, in order
    reply,                  \* ChatResponse.response of the last request
    message_id,             \* ChatResponse.message_id of the last request
    http_status             \* 200, or the status of the HTTPException raised

vars == << state, user_profile, search_results, pending_confirmation,
           sessions, LAST_CLEANUP, now, uuids, expired_sessions, endpoint, session_id,
           in_flight, session_lock, served,
           user_input, extracted, handler, calls, reply, message_id, http_status >>

None == "None"
APPLICATION_SUPPORT == "application_support"

Bot(st, p, sr, pc) ==
    [state |-> st, user_profile |-> p, search_results |-> sr, pending_confirmation |-> pc]

\* a call to an external service: the text generation ("generate", for which
\* agent) or the search ("search", which query), whether it returned, and
\* what it returned as far as the caller looks at it
CallOut(svc, arg, ok, out) == [svc |-> svc, arg |-> arg, ok |-> ok, out |-> out]
Call(svc, arg, ok) == CallOut(svc, arg, ok, IF ok THEN "ok" ELSE "error")

\* no extraction call was made
NoExtraction == [kind |-> "none", delta |-> <<>>]

\* how a method ends: it returns reply, or an exception leaves it
Return(b, cs, r) ==
    [bot |-> b, calls |-> cs, reply |-> r, raised |-> FALSE, handler |-> "",
     extracted |-> NoExtraction]
Raise(b, cs) ==
    [bot |-> b, calls |-> cs, reply |-> <<>>, raised |-> TRUE, handler |-> "",
     extracted |-> NoExtraction]

\* the outcomes of the method process_message handed the message to
HandledBy(h, outcomes) == { [o EXCEPT !.handler = h] : o \in outcomes }

\* the outcomes of a turn whose extraction call did x
Extracting(x, outcomes) == { [o EXCEPT !.extracted = x] : o \in outcomes }

\* the parts a reply is put together from
GEN_PROFILER == "generated:profiler"
GEN_PROFILER_MARKER == "generated:profiler:PROFILE_COMPLETE"
GEN_RESPONSE == "generated:response"
GEN_SUPPORT == "generated:support"
GEN_FOLLOWUP == "generated:followup"
SEARCH_ERROR_NOTICE == "I encountered an error while searching"
TRANSITION_NOTICE == "Great! I have enough information"
CONFIRM_PROMPT == "Would you like me to provide detailed application support"
DECLINE_TEXT == "No problem!"
NOT_SURE_TEXT == "I'm not sure how to help with that"

\* what conversation.predict of the profiler can answer
ProfilerTexts == {GEN_PROFILER, GEN_PROFILER_MARKER}

\* "PROFILE_COMPLETE" in response
HasMarker(text) == text = GEN_PROFILER_MARKER

(***************************************************************************)
(* Search Orchestrator: ScholarshipBot.research_agent                      *)
(***************************************************************************)
citizenship_query(p) ==
    [kind |-> "citizenship",
     terms |-> << p["citizenship"], p["field_of_study"], p["education_level"] >>]
location_query(p) ==
    [kind |-> "location",
     terms |-> << p["location"], p["field_of_study"], p["education_level"], p["citizenship"] >>]
tips_query(p) ==
    [kind |-> "tips", terms |-> << p["field_of_study"], p["citizenship"] >>]

\* what tavily_client.search returns when it returns: results for that query
tavily_search(query, depth, max_results) ==
    [query |-> query, search_depth |-> depth, max_results |-> max_results]

Entry(k, v) == [k |-> k, v |-> v]

\* all_results: a dict, in insertion order
all_results(p) ==
    << Entry("citizenship_scholarships", tavily_search(citizenship_query(p), "advanced", 6)),
       Entry("location_scholarships", tavily_search(location_query(p), "advanced", 4)),
       Entry("application_tips", tavily_search(tips_query(p), "basic", 3)) >>

SearchError == [error |-> TRUE, data |-> <<>>]
SearchData(d) == [error |-> FALSE, data |-> d]

\* research_agent: the three searches in turn inside one try; the first that
\* raises, or to_search_context() raising while the bundle is built, ends in
\* {"error": ..}; else the bundle is stored and returned.
\* Yields [bot, calls, ret].
research_agent(b) ==
    LET p == b.user_profile
        c1(ok) == Call("search", "citizenship", ok)
        c2(ok) == Call("search", "location", ok)
        c3(ok) == Call("search", "tips", ok)
        done == << c1(TRUE), c2(TRUE), c3(TRUE) >>
    IN  { [bot |-> b, calls |-> << c1(FALSE) >>, ret |-> SearchError],
          [bot |-> b, calls |-> << c1(TRUE), c2(FALSE) >>, ret |-> SearchError],
          [bot |-> b, calls |-> << c1(TRUE), c2(TRUE), c3(FALSE) >>, ret |-> SearchError],
          IF to_search_context_raises(p)
          THEN [bot |-> b, calls |-> done, ret |-> SearchError]
          ELSE LET d == all_results(p) \o << Entry("user_profile", to_search_context(p)) >>
               IN  [bot |-> [b EXCEPT !.search_results = d], calls |-> done,
                    ret |-> SearchData(d)] }

(***************************************************************************)
(* Response Synthesizer: ScholarshipBot.response_agent                     *)
(***************************************************************************)
\* response_agent without the line that sets up the confirmation
response_agent_no_confirmation(b, search_data) ==
    { Raise(b, << Call("generate", "response", FALSE) >>),
      Return(b, << Call("generate", "response", TRUE) >>,
             << GEN_RESPONSE, CONFIRM_PROMPT >>) }

\* one generation call; on its return the confirmation is set up and the
\* prompt appended
response_agent(b, search_data) ==
    { Raise(b, << Call("generate", "response", FALSE) >>),
      Return([b EXCEPT !.pending_confirmation = APPLICATION_SUPPORT],
             << Call("generate", "response", TRUE) >>,
             << GEN_RESPONSE, CONFIRM_PROMPT >>) }

\* _provide_application_support: the prompt is built from the profile, then
\* one generation call
provide_application_support(b) ==
    IF to_search_context_raises(b.user_profile) THEN { Raise(b, <<>>) }
    ELSE { Raise(b, << Call("generate", "support", FALSE) >>),
           Return(b, << Call("generate", "support", TRUE) >>, << GEN_SUPPORT >>) }

\* _handle_followup taking the request for a new search at its word: the
\* state set back to SEARCHING
handle_followup_new_search(b, input) ==
    IF to_search_context_raises(b.user_profile) THEN { Raise(b, <<>>) }
    ELSE { Raise(b, << Call("generate", "followup", FALSE) >>),
           Return([b EXCEPT !.state = SEARCHING],
                  << Call("generate", "followup", TRUE) >>, << GEN_FOLLOWUP >>) }

\* _handle_followup dropping the pending confirmation once it has answered
handle_followup_clears_pending(b, input) ==
    IF to_search_context_raises(b.user_profile) THEN { Raise(b, <<>>) }
    ELSE { Raise(b, << Call("generate", "followup", FALSE) >>),
           Return([b EXCEPT !.pending_confirmation = None],
                  << Call("generate", "followup", TRUE) >>, << GEN_FOLLOWUP >>) }

\* _handle_followup: the prompt is built from the profile, then one
\* generation call; nothing is assigned
handle_followup(b, input) ==
    IF to_search_context_raises(b.user_profile) THEN { Raise(b, <<>>) }
    ELSE { Raise(b, << Call("generate", "followup", FALSE) >>),
           Return(b, << Call("generate", "followup", TRUE) >>, << GEN_FOLLOWUP >>) }

(***************************************************************************)
(* Dialogue State Machine: profiler_agent and process_message              *)
(***************************************************************************)
\* the search and the synthesis without the test for "error" in between
search_then_respond_unchecked(b, cs, prefix, notice) ==
    UNION { { IF s.raised
              THEN Raise(s.bot, cs \o r.calls \o s.calls)
              ELSE Return(s.bot, cs \o r.calls \o s.calls, prefix \o notice \o s.reply)
              : s \in response_agent(r.bot, r.ret.data) }
            : r \in research_agent(b) }

\* the search and, when it gave data, the synthesis, for a reply that starts
\* with prefix and announces the report with notice
search_then_respond(b, cs, prefix, notice) ==
    UNION { IF r.ret.error
            THEN { Return(r.bot, cs \o r.calls, prefix \o << SEARCH_ERROR_NOTICE >>) }
            ELSE { IF s.raised
                   THEN Raise(s.bot, cs \o r.calls \o s.calls)
                   ELSE Return(s.bot, cs \o r.calls \o s.calls, prefix \o notice \o s.reply)
                   : s \in response_agent(r.bot, r.ret.data) }
            : r \in research_agent(b) }

\* the completion check with the marker alone, is_complete() left out
profiler_after_predict_marker_only(b, text, x) ==
    LET p2 == extract_profile_info(b.user_profile, x)
        b2 == [b EXCEPT !.user_profile = p2]
        cs == << CallOut("generate", "profiler", TRUE, text),
                 CallOut("generate", "extraction", x.kind # "fail", x.kind) >>
    IN  IF HasMarker(text)
        THEN search_then_respond([b2 EXCEPT !.state = RESPONDING], cs,
                                 << text >>, << TRANSITION_NOTICE >>)
        ELSE { Return(b2, cs, << text >>) }

\* profiler_agent with the extraction step's exceptions not caught: a call
\* that raised or an answer that is no JSON object ends the turn
profiler_after_predict_extraction_fatal(b, text, x) ==
    LET p2 == extract_profile_info(b.user_profile, x)
        b2 == [b EXCEPT !.user_profile = p2]
        cs == << CallOut("generate", "profiler", TRUE, text),
                 CallOut("generate", "extraction", x.kind # "fail", x.kind) >>
    IN  IF x.kind # "object"
        THEN { Raise(b, cs) }
        ELSE IF HasMarker(text) \/ is_complete(p2) = "true"
        THEN search_then_respond([b2 EXCEPT !.state = RESPONDING], cs,
                                 << text >>, << TRANSITION_NOTICE >>)
        ELSE IF is_complete(p2) = "raise"
        THEN { Raise(b2, cs) }
        ELSE { Return(b2, cs, << text >>) }

\* the profiler handing over to the search without advancing the state
profiler_after_predict_state_kept(b, text, x) ==
    LET p2 == extract_profile_info(b.user_profile, x)
        b2 == [b EXCEPT !.user_profile = p2]
        cs == << CallOut("generate", "profiler", TRUE, text),
                 CallOut("generate", "extraction", x.kind # "fail", x.kind) >>
    IN  IF HasMarker(text) \/ is_complete(p2) = "true"
        THEN search_then_respond(b2, cs,
                                 << text >>, << TRANSITION_NOTICE >>)
        ELSE IF is_complete(p2) = "raise"
        THEN { Raise(b2, cs) }
        ELSE { Return(b2, cs, << text >>) }

\* profiler_agent after conversation.predict returned text and the extraction
\* call did x (lines 128-142)
profiler_after_predict(b, text, x) ==
    LET p2 == extract_profile_info(b.user_profile, x)
        b2 == [b EXCEPT !.user_profile = p2]
        cs == << CallOut("generate", "profiler", TRUE, text),
                 CallOut("generate", "extraction", x.kind # "fail", x.kind) >>
    IN  IF HasMarker(text) \/ is_complete(p2) = "true"
        THEN search_then_respond([b2 EXCEPT !.state = RESPONDING], cs,
                                 << text >>, << TRANSITION_NOTICE >>)
        ELSE IF is_complete(p2) = "raise"
        THEN { Raise(b2, cs) }
        ELSE { Return(b2, cs, << text >>) }

\* profiler_agent: the prompt is built from the profile, the dialogue call is
\* made, then the extraction, then the completion check
profiler_agent(b, input) ==
    IF to_search_context_raises(b.user_profile) THEN { Raise(b, <<>>) }
    ELSE { Raise(b, << Call("generate", "profiler", FALSE) >>) }
         \cup UNION { Extracting(x, profiler_after_predict(b, text, x))
                      : text \in ProfilerTexts, x \in ExtractionOutputs }

Affirmative == { <<"y", "e", "s">>, <<"y">>, <<"o", "k">>, <<"s", "u", "r", "e">> }
Negative == { <<"n", "o">>, <<"n">>, <<"n", "o", "t", " ", "n", "o", "w">> }

\* the messages a request is taken to carry
UserInputs ==
    { <<"y", "e", "s">>, <<" ", "Y", "\n">>, <<"o", "k">>, <<"s", "u", "r", "e">>,
      <<"n", "o">>, <<"N">>, <<"n", "o", "t", " ", "n", "o", "w">>,
      <<"m", "a", "y", "b", "e">> }

\* the routing trying the search again while no bundle is stored
route_searching_again(b, input) ==
    IF b.state = PROFILING THEN HandledBy("profiler_agent", profiler_agent(b, input))
    ELSE IF b.state = SEARCHING \/ (b.state = RESPONDING /\ b.search_results = <<>>)
    THEN HandledBy("research_agent",
                   search_then_respond([b EXCEPT !.state = RESPONDING], <<>>, <<>>, <<>>))
    ELSE IF b.state = RESPONDING
    THEN HandledBy("_handle_followup", handle_followup(b, input))
    ELSE HandledBy("process_message", { Return(b, <<>>, << NOT_SURE_TEXT >>) })

\* process_message from the state routing on (lines 358-376)
route(b, input) ==
    IF b.state = PROFILING THEN HandledBy("profiler_agent", profiler_agent(b, input))
    ELSE IF b.state = SEARCHING
    THEN HandledBy("research_agent",
                   search_then_respond([b EXCEPT !.state = RESPONDING], <<>>, <<>>, <<>>))
    ELSE IF b.state = RESPONDING
    THEN HandledBy("_handle_followup", handle_followup(b, input))
    ELSE HandledBy("process_message", { Return(b, <<>>, << NOT_SURE_TEXT >>) })

\* process_message: is_complete() is evaluated for the log line, then the
\* pending confirmation is looked at, then the state routes
process_message(b, input) ==
    LET user_input_lower == Lower(Strip(input)) IN
    IF is_complete(b.user_profile) = "raise"
    THEN HandledBy("process_message", { Raise(b, <<>>) })
    ELSE IF b.pending_confirmation # None /\ user_input_lower \in Affirmative
            /\ b.pending_confirmation = APPLICATION_SUPPORT
    THEN HandledBy("_provide_application_support",
                   provide_application_support([b EXCEPT !.pending_confirmation = None]))
    ELSE IF b.pending_confirmation # None /\ user_input_lower \notin Affirmative
            /\ user_input_lower \in Negative
    THEN HandledBy("process_message",
                   { Return([b EXCEPT !.pending_confirmation = None], <<>>, << DECLINE_TEXT >>) })
    ELSE route(b, input)

(***************************************************************************)
(* The session registry and the endpoints (src/server.py).  The bot        *)
(* variables are the bot of the session created last; a session's          *)
(* created_at is never read and is left out.                               *)
(***************************************************************************)
\* timedelta(hours=2) and timedelta(minutes=30), in quarter hours
SESSION_TIMEOUT == 8
CLEANUP_INTERVAL == 2

\* ScholarshipBot(): lines 78-82 of main.py
NewBot == Bot(PROFILING, UserProfile, <<>>, None)

\* the dict create_session stores, but for the bot
NewSession(t) == [last_activity |-> t, message_count |-> 0]

\* the sweep measuring a session's idle time up to the last sweep instead of
\* up to current_time
cleanup_expired_sessions_since_last_sweep(ss, lc, t) ==
    IF t - lc < CLEANUP_INTERVAL
    THEN [sessions |-> ss, LAST_CLEANUP |-> lc, expired |-> {}]
    ELSE LET expired == { id \in DOMAIN ss : lc - ss[id].last_activity > SESSION_TIMEOUT }
         IN  [sessions |-> [id \in DOMAIN ss \ expired |-> ss[id]],
              LAST_CLEANUP |-> t,
              expired |-> { [id |-> id, idle |-> t - ss[id].last_activity] : id \in expired }]

cleanup_expired_sessions_on_every_access(ss, lc, t) ==
    LET expired == { id \in DOMAIN ss : t - ss[id].last_activity > SESSION_TIMEOUT }
    IN  [sessions |-> [id \in DOMAIN ss \ expired |-> ss[id]],
         LAST_CLEANUP |-> t,
         expired |-> { [id |-> id, idle |-> t - ss[id].last_activity] : id \in expired }]

\* cleanup_expired_sessions() at time t: nothing within 30 minutes of the last
\* sweep; else every session idle for more than SESSION_TIMEOUT is deleted
\* Yields the registry, LAST_CLEANUP and what was deleted, each id with the
\* time it had been idle.
cleanup_expired_sessions(ss, lc, t) ==
    IF t - lc < CLEANUP_INTERVAL
    THEN [sessions |-> ss, LAST_CLEANUP |-> lc, expired |-> {}]
    ELSE LET expired == { id \in DOMAIN ss : t - ss[id].last_activity > SESSION_TIMEOUT }
         IN  [sessions |-> [id \in DOMAIN ss \ expired |-> ss[id]],
              LAST_CLEANUP |-> t,
              expired |-> { [id |-> id, idle |-> t - ss[id].last_activity] : id \in expired }]

\* str(uuid.uuid4()): the n-th id drawn, different from all before it
uuid4(n) == << "uuid-1", "uuid-2", "uuid-3", "uuid-4" >>[n]

\* create_session() at time t, the n+1st uuid drawn
create_session(ss, lc, n, t) ==
    LET c == cleanup_expired_sessions(ss, lc, t)
        id == uuid4(n + 1)
    IN  [sessions |-> [i \in DOMAIN c.sessions \cup {id} |->
                          IF i = id THEN NewSession(t) ELSE c.sessions[i]],
         LAST_CLEANUP |-> c.LAST_CLEANUP,
         expired |-> c.expired,
         session_id |-> id]

\* get_session without the sweep before the lookup
get_session_without_sweep(ss, lc, id, t) ==
    IF id \notin DOMAIN ss
    THEN [found |-> FALSE, sessions |-> ss, LAST_CLEANUP |-> lc, expired |-> {}]
    ELSE [found |-> TRUE,
          sessions |-> [ss EXCEPT ![id].last_activity = t],
          LAST_CLEANUP |-> lc,
          expired |-> {}]

\* get_session that makes the session it does not find
get_session_or_create(ss, lc, id, t) ==
    LET c == cleanup_expired_sessions(ss, lc, t) IN
    [found |-> TRUE,
     sessions |-> [i \in DOMAIN c.sessions \cup {id} |->
                      IF i = id THEN NewSession(t) ELSE c.sessions[i]],
     LAST_CLEANUP |-> c.LAST_CLEANUP,
     expired |-> c.expired]

\* get_session(id) at time t: the sweep, then 404 or the session with its
\* last_activity refreshed
get_session(ss, lc, id, t) ==
    LET c == cleanup_expired_sessions(ss, lc, t) IN
    IF id \notin DOMAIN c.sessions
    THEN [found |-> FALSE, sessions |-> c.sessions, LAST_CLEANUP |-> c.LAST_CLEANUP,
          expired |-> c.expired]
    ELSE [found |-> TRUE,
          sessions |-> [c.sessions EXCEPT ![id].last_activity = t],
          LAST_CLEANUP |-> c.LAST_CLEANUP,
          expired |-> c.expired]

\* session_lock = Lock(): held by no request
Unlocked == 0

\* a response without a message id: an error, or not a ChatResponse
NoMessageId == <<>>

\* the chat requests the event loop is given, and one before its handler runs
Requests == 1..MaxRequests
NotArrived == [at |-> "arrived", session_id |-> None, input |-> <<>>]

\* a request served in one piece: no handler is left in flight, no lock held
Served == UNCHANGED << in_flight, session_lock >>

\* the module as loaded: no session, LAST_CLEANUP = datetime.now(); the bot
\* variables hold a new bot until the first session is created
Init ==
    /\ state = PROFILING
    /\ user_profile = UserProfile
    /\ search_results = <<>>
    /\ pending_confirmation = None
    /\ sessions = << >>
    /\ LAST_CLEANUP = 0
    /\ now = 0
    /\ uuids = 0
    /\ expired_sessions = {}
    /\ in_flight = [r \in Requests |-> NotArrived]
    /\ served = 0
    /\ session_lock = Unlocked
    /\ endpoint = ""
    /\ session_id = None
    /\ user_input = <<>>
    /\ extracted = NoExtraction
    /\ handler = ""
    /\ calls = <<>>
    /\ reply = <<>>
    /\ message_id = NoMessageId
    /\ http_status = 0

\* the message id made of the counter as it was before the turn
MessageId_before_update(id, message_count) == << id, "_", message_count - 1 >>

\* f"{session_id}_{session_data['message_count']}"
MessageId(id, message_count) == << id, "_", message_count >>

\* a request that reached no bot method
NoTurn ==
    /\ user_input' = <<>>
    /\ extracted' = NoExtraction
    /\ handler' = ""
    /\ calls' = <<>>
    /\ reply' = <<>>

BotUnchanged == UNCHANGED << state, user_profile, search_results, pending_confirmation >>

\* the bot a chat request with session_id id talks to: a new one when a
\* session is created
ChatBot(id) ==
    IF id = None THEN NewBot
    ELSE Bot(state, user_profile, search_results, pending_confirmation)

\* chat_endpoint at time t for a request with session_id id (None: a session
\* is created) and message input, process_message doing one of outcomes:
\* get_session, process_message, then message_count += 1 and last_activity;
\* an exception of process_message becomes HTTP 500.
chat_endpoint(id, input, t, outcomes) ==
    LET c == IF id = None
             THEN create_session(sessions, LAST_CLEANUP, uuids, t)
             ELSE [sessions |-> sessions, LAST_CLEANUP |-> LAST_CLEANUP,
                   expired |-> {}, session_id |-> id]
        g == get_session(c.sessions, c.LAST_CLEANUP, c.session_id, t)
    IN  /\ now' = t
        /\ Served
        /\ endpoint' = "chat"
        /\ session_id' = c.session_id
        /\ uuids' = IF id = None THEN uuids + 1 ELSE uuids
        /\ LAST_CLEANUP' = g.LAST_CLEANUP
        /\ expired_sessions' = c.expired \cup g.expired
        /\ IF ~g.found
           THEN /\ sessions' = g.sessions
                /\ http_status' = 404
                /\ message_id' = NoMessageId
                /\ BotUnchanged
                /\ NoTurn
           ELSE \E o \in outcomes :
                   /\ state' = o.bot.state
                   /\ user_profile' = o.bot.user_profile
                   /\ search_results' = o.bot.search_results
                   /\ pending_confirmation' = o.bot.pending_confirmation
                   /\ user_input' = input
                   /\ extracted' = o.extracted
                   /\ handler' = o.handler
                   /\ calls' = o.calls
                   /\ reply' = o.reply
                   /\ http_status' = IF o.raised THEN 500 ELSE 200
                   /\ sessions' =
                        IF o.raised THEN g.sessions
                        ELSE [g.sessions EXCEPT
                                 ![c.session_id].message_count = @ + 1,
                                 ![c.session_id].last_activity = t]
                   /\ message_id' =
                        IF o.raised THEN NoMessageId
                        ELSE MessageId(c.session_id, sessions'[c.session_id].message_count)

\* a reset that sets the counter and the activity time but leaves the old bot
\* in place
reset_session_keeping_dialogue(id, t) ==
    LET g == get_session(sessions, LAST_CLEANUP, id, t) IN
    /\ now' = t
    /\ Served
    /\ endpoint' = "reset_session"
    /\ session_id' = id
    /\ UNCHANGED uuids
    /\ LAST_CLEANUP' = g.LAST_CLEANUP
    /\ expired_sessions' = g.expired
    /\ NoTurn
    /\ message_id' = NoMessageId
    /\ IF ~g.found
       THEN /\ sessions' = g.sessions
            /\ http_status' = 404
            /\ BotUnchanged
       ELSE /\ sessions' = [g.sessions EXCEPT ![id] = NewSession(t)]
            /\ http_status' = 200
            /\ BotUnchanged

\* reset_session at time t: a new bot, message_count 0
reset_session(id, t) ==
    LET g == get_session(sessions, LAST_CLEANUP, id, t) IN
    /\ now' = t
    /\ Served
    /\ endpoint' = "reset_session"
    /\ session_id' = id
    /\ UNCHANGED uuids
    /\ LAST_CLEANUP' = g.LAST_CLEANUP
    /\ expired_sessions' = g.expired
    /\ NoTurn
    /\ message_id' = NoMessageId
    /\ IF ~g.found
       THEN /\ sessions' = g.sessions
            /\ http_status' = 404
            /\ BotUnchanged
       ELSE /\ sessions' = [g.sessions EXCEPT ![id] = NewSession(t)]
            /\ http_status' = 200
            /\ state' = NewBot.state
            /\ user_profile' = NewBot.user_profile
            /\ search_results' = NewBot.search_results
            /\ pending_confirmation' = NewBot.pending_confirmation

\* the session ids a chat request is taken to carry: none while the registry
\* is empty and a uuid is left, else the id of a session that can take
\* another message
ChatIds ==
    { id \in {None} : sessions = << >> /\ uuids < MaxSessions }
    \cup { id \in DOMAIN sessions : sessions[id].message_count < MaxMessages }

\* the dialogue of a session: chat requests that follow each other at once
ChatEndpoint ==
    /\ UNCHANGED served
    /\ \E id \in ChatIds, input \in UserInputs :
         chat_endpoint(id, input, now, process_message(ChatBot(id), input))

\* the session is reset in the middle of its dialogue
ResetEndpoint ==
    /\ UNCHANGED served
    /\ \E id \in DOMAIN sessions : reset_session(id, now)

Next == ChatEndpoint \/ ResetEndpoint

Spec == Init /\ [][Next]_vars

(***************************************************************************)
(* The service over time: every endpoint that touches the registry, the    *)
(* requests arriving at any later time.                                    *)
(***************************************************************************)
\* get_profile at time t
get_profile(id, t) ==
    LET g == get_session(sessions, LAST_CLEANUP, id, t) IN
    /\ now' = t
    /\ Served
    /\ endpoint' = "get_profile"
    /\ session_id' = id
    /\ UNCHANGED uuids
    /\ LAST_CLEANUP' = g.LAST_CLEANUP
    /\ expired_sessions' = g.expired
    /\ sessions' = g.sessions
    /\ http_status' = IF g.found THEN 200 ELSE 404
    /\ message_id' = NoMessageId
    /\ BotUnchanged
    /\ NoTurn

\* get_session_stats at time t: the sweep and two sums
get_session_stats(t) ==
    LET c == cleanup_expired_sessions(sessions, LAST_CLEANUP, t) IN
    /\ now' = t
    /\ Served
    /\ endpoint' = "get_session_stats"
    /\ session_id' = None
    /\ UNCHANGED uuids
    /\ LAST_CLEANUP' = c.LAST_CLEANUP
    /\ expired_sessions' = c.expired
    /\ sessions' = c.sessions
    /\ http_status' = 200
    /\ message_id' = NoMessageId
    /\ BotUnchanged
    /\ NoTurn

\* when a request can arrive: at once, or 15 or 30 minutes, 1, 2 or 3 hours after
\* the request before it
Elapsed == {0, 1, 2, 4, 8, 12}
Arrivals == { t \in now..MaxTime : t - now \in Elapsed }

\* one more request is answered
Serve == served < MaxServed /\ served' = served + 1

\* the ids a request is taken to name: every id given out so far, in the
\* registry or not, and one that never was
UNKNOWN_ID == "unknown"
RequestIds == DOMAIN sessions \cup { uuid4(n) : n \in 1..uuids } \cup { UNKNOWN_ID }

\* the dialogues the service is run with: one message, one extraction
\* answer, and the generation and search services up
ServerInputs == { <<"y", "e", "s">> }
ServerExtractions ==
    { NoExtraction,
      [kind |-> "object",
       delta |-> << KV("citizenship", StrV(s_ca)), KV("field_of_study", StrV(s_cs)) >>] }

\* process_message in those dialogues
served_turn(b, input) ==
    { o \in process_message(b, input) :
         /\ o.extracted \in ServerExtractions
         /\ \A i \in 1..Len(o.calls) : o.calls[i].ok }

\* the session the bot variables belong to, while the registry holds it
BotSessions == { id \in DOMAIN sessions : uuids > 0 /\ id = uuid4(uuids) }

\* a chat request creates a session while a uuid is left, talks to the
\* session created last, or names an id the registry does not hold
Chat ==
    /\ Serve
    /\ \E t \in Arrivals, input \in ServerInputs :
         \E id \in { i \in {None} : uuids < MaxSessions }
                    \cup { i \in BotSessions : sessions[i].message_count < MaxMessages }
                    \cup (RequestIds \ DOMAIN sessions) :
            chat_endpoint(id, input, t, served_turn(ChatBot(id), input))

\* the profile of the session created last, or of an id the registry does
\* not hold
GetProfile ==
    /\ Serve
    /\ \E t \in Arrivals, id \in BotSessions \cup (RequestIds \ DOMAIN sessions) :
         get_profile(id, t)

\* a reset of the session created last, or of an id the registry does not hold
ResetSession ==
    /\ Serve
    /\ \E t \in Arrivals, id \in BotSessions \cup (RequestIds \ DOMAIN sessions) :
         reset_session(id, t)

SessionStats == Serve /\ \E t \in Arrivals : get_session_stats(t)

NextServer == Chat \/ GetProfile \/ ResetSession \/ SessionStats

SpecServer == Init /\ [][NextServer]_vars

(***************************************************************************)
(* The event loop: chat_endpoint step by step, for chat requests that      *)
(* arrive together.  A request stands at "arrived", then before and inside *)
(* the locked block of get_session ("get_session", "lookup"), at           *)
(* bot.process_message, before and inside the locked block of the update   *)
(* ("update", "updating"), and at "done".                                  *)
(***************************************************************************)
\* the handler run in a thread of its own, as for an endpoint declared def
LoopFree_threadpool == TRUE

\* chat_endpoint is a coroutine that never awaits: the event loop starts it
\* for a request only when no other handler is in flight
LoopFree == \A r \in Requests : in_flight[r].at \in {"arrived", "done"}

At(r, at) == in_flight[r].at = at
Goto(r, at) == in_flight' = [in_flight EXCEPT ![r].at = at]

RegistryUnchanged ==
    UNCHANGED << sessions, LAST_CLEANUP, now, uuids, expired_sessions, served >>
ResponseUnchanged == UNCHANGED << endpoint, session_id, message_id, http_status >>
TurnUnchanged == UNCHANGED << user_input, extracted, handler, calls, reply >>

\* the HTTP response of request r
Respond(r, status) ==
    /\ Goto(r, "done")
    /\ endpoint' = "chat"
    /\ session_id' = in_flight[r].session_id
    /\ http_status' = status
    /\ message_id' =
         IF status # 200 THEN NoMessageId
         ELSE MessageId(in_flight[r].session_id,
                        sessions'[in_flight[r].session_id].message_count)

\* process_message with the extraction call doing one of ServerExtractions,
\* the services up or down
looped_turn(b, input) ==
    { o \in process_message(b, input) : o.extracted \in ServerExtractions }

\* the handler starts: create_session when the request names no session,
\* then get_session up to its locked block
Accept(r) ==
    /\ At(r, "arrived")
    /\ LoopFree
    /\ \E id \in ChatIds \cup {UNKNOWN_ID}, input \in ServerInputs :
         LET c == IF id = None
                  THEN create_session(sessions, LAST_CLEANUP, uuids, now)
                  ELSE [sessions |-> sessions, LAST_CLEANUP |-> LAST_CLEANUP,
                        expired |-> {}, session_id |-> id]
             g == cleanup_expired_sessions(c.sessions, c.LAST_CLEANUP, now)
             bot == ChatBot(id)
         IN  /\ in_flight' = [in_flight EXCEPT ![r] = [at |-> "get_session",
                                         session_id |-> c.session_id,
                                         input |-> input]]
             /\ sessions' = g.sessions
             /\ LAST_CLEANUP' = g.LAST_CLEANUP
             /\ expired_sessions' = c.expired \cup g.expired
             /\ uuids' = IF id = None THEN uuids + 1 ELSE uuids
             /\ state' = bot.state
             /\ user_profile' = bot.user_profile
             /\ search_results' = bot.search_results
             /\ pending_confirmation' = bot.pending_confirmation
    /\ UNCHANGED << now, session_lock, served >>
    /\ ResponseUnchanged
    /\ TurnUnchanged

\* with session_lock: in get_session
LockForLookup(r) ==
    /\ At(r, "get_session")
    /\ session_lock = Unlocked
    /\ session_lock' = r
    /\ Goto(r, "lookup")
    /\ RegistryUnchanged
    /\ BotUnchanged
    /\ ResponseUnchanged
    /\ TurnUnchanged

\* the locked block of get_session: 404, or last_activity refreshed
Lookup(r) ==
    /\ At(r, "lookup")
    /\ session_lock' = Unlocked
    /\ BotUnchanged
    /\ UNCHANGED << LAST_CLEANUP, now, uuids, expired_sessions, served >>
    /\ IF in_flight[r].session_id \notin DOMAIN sessions
       THEN /\ Respond(r, 404)
            /\ NoTurn
            /\ UNCHANGED sessions
       ELSE /\ Goto(r, "process_message")
            /\ sessions' = [sessions EXCEPT ![in_flight[r].session_id].last_activity = now]
            /\ ResponseUnchanged
            /\ TurnUnchanged

\* response = bot.process_message(request.message), no lock held
ProcessMessage(r) ==
    /\ At(r, "process_message")
    /\ RegistryUnchanged
    /\ UNCHANGED session_lock
    /\ \E o \in looped_turn(Bot(state, user_profile, search_results, pending_confirmation),
                              in_flight[r].input) :
         /\ state' = o.bot.state
         /\ user_profile' = o.bot.user_profile
         /\ search_results' = o.bot.search_results
         /\ pending_confirmation' = o.bot.pending_confirmation
         /\ user_input' = in_flight[r].input
         /\ extracted' = o.extracted
         /\ handler' = o.handler
         /\ calls' = o.calls
         /\ reply' = o.reply
         /\ IF o.raised
            THEN Respond(r, 500)
            ELSE Goto(r, "update") /\ ResponseUnchanged

\* with session_lock: in chat_endpoint
LockForUpdate(r) ==
    /\ At(r, "update")
    /\ session_lock = Unlocked
    /\ session_lock' = r
    /\ Goto(r, "updating")
    /\ RegistryUnchanged
    /\ BotUnchanged
    /\ ResponseUnchanged
    /\ TurnUnchanged

\* the locked block of the update, and the ChatResponse
Update(r) ==
    /\ At(r, "updating")
    /\ session_lock' = Unlocked
    /\ sessions' = [sessions EXCEPT ![in_flight[r].session_id].message_count = @ + 1,
                                    ![in_flight[r].session_id].last_activity = now]
    /\ Respond(r, 200)
    /\ UNCHANGED << LAST_CLEANUP, now, uuids, expired_sessions, served >>
    /\ BotUnchanged
    /\ TurnUnchanged

NextLoop ==
    \E r \in Requests :
       \/ Accept(r)
       \/ LockForLookup(r)
       \/ Lookup(r)
       \/ ProcessMessage(r)
       \/ LockForUpdate(r)
       \/ Update(r)

SpecLoop == Init /\ [][NextLoop]_vars

(***************************************************************************)
(* What a state tells about the request that led to it.                    *)
(***************************************************************************)
HasCall(cs, svc, arg) == \E i \in 1..Len(cs) : cs[i].svc = svc /\ cs[i].arg = arg
ReturnedCall(cs, svc, arg) ==
    \E i \in 1..Len(cs) : cs[i].svc = svc /\ cs[i].arg = arg /\ cs[i].ok
FailedCall(cs, svc) == \E i \in 1..Len(cs) : cs[i].svc = svc /\ ~cs[i].ok
Contains(r, part) == \E i \in 1..Len(r) : r[i] = part
EndsWith(r, suffix) ==
    /\ Len(r) >= Len(suffix)
    /\ SubSeq(r, Len(r) - Len(suffix) + 1, Len(r)) = suffix

\* the profiler got past the extraction step: its two calls lead the list
PastExtraction(cs) ==
    /\ Len(cs) >= 2
    /\ cs[1].svc = "generate" /\ cs[1].arg = "profiler" /\ cs[1].ok
    /\ cs[2].svc = "generate" /\ cs[2].arg = "extraction"

AllSearchesReturned(cs) ==
    /\ ReturnedCall(cs, "search", "citizenship")
    /\ ReturnedCall(cs, "search", "location")
    /\ ReturnedCall(cs, "search", "tips")

\* the three categories of a bundle, in its order
BundleKeys(d) == [i \in 1..Len(d) |-> d[i].k]
CategoryOrder == << "citizenship_scholarships", "location_scholarships", "application_tips" >>

TokenOf(input) == Lower(Strip(input))

(***************************************************************************)
(* C1. In a PROFILING turn that got past the extraction step, the state    *)
(* advances to RESPONDING and the search is issued in the same turn (with  *)
(* the synthesis next, exactly when the search step gave a bundle) if and  *)
(* only if the profiler's text holds the completion marker or the profile  *)
(* is complete; when neither holds the state stays PROFILING and no search *)
(* is issued.                                                              *)
(***************************************************************************)
C1_AdvanceIffMarkerOrComplete ==
    [][ (state = PROFILING /\ PastExtraction(calls')) =>
          LET cond == HasMarker(calls'[1].out) \/ is_complete(user_profile') = "true"
              searched == Len(calls') >= 3 /\ calls'[3].svc = "search"
              bundle == AllSearchesReturned(calls') /\ search_results' # <<>>
              synthesized == HasCall(calls', "generate", "response")
          IN  /\ cond <=> (state' = RESPONDING /\ searched)
              /\ cond => (synthesized <=> bundle)
              /\ synthesized => calls'[Len(calls')].arg = "response" /\ Len(calls') = 6
              /\ ~cond => (state' = PROFILING /\ ~HasCall(calls', "search", "citizenship")
                           /\ ~synthesized) ]_vars

\* a profiling turn whose delta completed the profile (no marker) went on to
\* search and synthesis
C1_Witness ==
    /\ state = RESPONDING
    /\ PastExtraction(calls)
    /\ ~HasMarker(calls[1].out)
    /\ is_complete(user_profile) = "true"
    /\ ReturnedCall(calls, "generate", "response")

(***************************************************************************)
(* C2. Every PROFILING turn whose extraction delta completes the profile   *)
(* ends with state RESPONDING and a reply that holds a synthesized report  *)
(* or a search-failure explanation, whatever the search and generation     *)
(* calls of the turn did.                                                  *)
(***************************************************************************)
C2_CompletingTurnReplies ==
    [][ (/\ state = PROFILING
         /\ PastExtraction(calls')
         /\ is_complete(user_profile) = "false"
         /\ is_complete(user_profile') = "true") =>
          /\ state' = RESPONDING
          /\ (Contains(reply', GEN_RESPONSE) \/ Contains(reply', SEARCH_ERROR_NOTICE)) ]_vars

(***************************************************************************)
(* C3. With application_support pending, an affirmative message clears the *)
(* flag and returns the application-support report (when the generation    *)
(* call gave one), a negative message clears the flag and returns the      *)
(* decline text; neither enters the state routing nor changes the state.   *)
(***************************************************************************)
C3_ConfirmationAnswered ==
    [][ /\ (pending_confirmation = APPLICATION_SUPPORT /\ TokenOf(user_input') \in Affirmative) =>
              /\ pending_confirmation' = None
              /\ handler' = "_provide_application_support"
              /\ state' = state
              /\ ReturnedCall(calls', "generate", "support") => reply' = << GEN_SUPPORT >>
        /\ (pending_confirmation = APPLICATION_SUPPORT /\ TokenOf(user_input') \in Negative) =>
              /\ pending_confirmation' = None
              /\ handler' = "process_message"
              /\ calls' = <<>>
              /\ state' = state
              /\ reply' = << DECLINE_TEXT >> ]_vars

(***************************************************************************)
(* C4. With a confirmation pending and a message that is neither an        *)
(* affirmative nor a negative token, the turn is handled by the state      *)
(* routing and the flag has the same value when the turn ends.             *)
(***************************************************************************)
C4_OtherInputFallsThrough ==
    [][ (/\ pending_confirmation # None
         /\ TokenOf(user_input') \notin (Affirmative \cup Negative)) =>
          /\ pending_confirmation' = pending_confirmation
          /\ handler' \in {"profiler_agent", "research_agent", "_handle_followup"} ]_vars

(***************************************************************************)
(* C5. A turn in which a generation call fails (the extraction call, whose *)
(* failure is not fatal, left aside) leaves the conversation state not     *)
(* advanced and the pending flag and the search bundle as they were before *)
(* the turn.                                                               *)
(***************************************************************************)
C5_FailedGenerationKeepsState ==
    [][ (\E i \in 1..Len(calls') :
            calls'[i].svc = "generate" /\ calls'[i].arg # "extraction" /\ ~calls'[i].ok) =>
          /\ state' = state
          /\ pending_confirmation' = pending_confirmation
          /\ search_results' = search_results ]_vars

(***************************************************************************)
(* C6. A generation or search call that raised during a turn ends in a     *)
(* reply of that turn, never in an error handed to the host.               *)
(***************************************************************************)
C6_FailuresBecomeReplies ==
    (FailedCall(calls, "generate") \/ FailedCall(calls, "search")) =>
        (http_status = 200 /\ reply # <<>>)

(***************************************************************************)
(* C7. The search step is all-or-nothing: when the three search calls      *)
(* return, the bundle with the three categories in the order citizenship,  *)
(* location, tips is produced and stored; when one of them fails, the      *)
(* error is reported, no bundle is made and the stored bundle is as it was.*)
(***************************************************************************)
C7_SearchAllOrNothing ==
    [][ HasCall(calls', "search", "citizenship") =>
          /\ AllSearchesReturned(calls') =>
                /\ Len(search_results') = 4
                /\ SubSeq(BundleKeys(search_results'), 1, 3) = CategoryOrder
                /\ ~Contains(reply', SEARCH_ERROR_NOTICE)
          /\ FailedCall(calls', "search") =>
                /\ search_results' = search_results
                /\ Contains(reply', SEARCH_ERROR_NOTICE)
                /\ ~HasCall(calls', "generate", "response") ]_vars

(***************************************************************************)
(* C8. When the search step fails in a turn that advanced the state to     *)
(* RESPONDING, the reply reports the search failure, the synthesis is not  *)
(* invoked, the turn does not set the pending flag, and the state is       *)
(* RESPONDING when the turn ends.                                          *)
(***************************************************************************)
C8_SearchFailureSkipsSynthesis ==
    [][ (/\ state \in {PROFILING, SEARCHING}
         /\ HasCall(calls', "search", "citizenship")
         /\ (FailedCall(calls', "search") \/ to_search_context_raises(user_profile'))) =>
          /\ state' = RESPONDING
          /\ http_status' = 200
          /\ EndsWith(reply', << SEARCH_ERROR_NOTICE >>)
          /\ ~Contains(reply', GEN_RESPONSE)
          /\ ~HasCall(calls', "generate", "response")
          /\ pending_confirmation' = pending_confirmation
          /\ pending_confirmation' = None ]_vars

\* a turn advanced to RESPONDING, its second search failed, the reply says so
C8_Witness ==
    /\ state = RESPONDING
    /\ handler = "profiler_agent"
    /\ ReturnedCall(calls, "search", "citizenship")
    /\ FailedCall(calls, "search")
    /\ EndsWith(reply, << SEARCH_ERROR_NOTICE >>)
    /\ pending_confirmation = None

(***************************************************************************)
(* C9. Every synthesis step whose generation call returned gives the       *)
(* generated text with the confirmation prompt appended and sets the       *)
(* pending confirmation to application_support; so does a profiling turn   *)
(* that completes the profile with search and synthesis succeeding.        *)
(***************************************************************************)
C9_SynthesisSetsConfirmation ==
    ReturnedCall(calls, "generate", "response") =>
        /\ pending_confirmation = APPLICATION_SUPPORT
        /\ EndsWith(reply, << GEN_RESPONSE, CONFIRM_PROMPT >>)
        /\ http_status = 200

\* the turn that completed the profile, searched and synthesized
C9_Witness ==
    /\ handler = "profiler_agent"
    /\ PastExtraction(calls)
    /\ ~HasMarker(calls[1].out)
    /\ AllSearchesReturned(calls)
    /\ ReturnedCall(calls, "generate", "response")
    /\ pending_confirmation = APPLICATION_SUPPORT
    /\ reply = << GEN_PROFILER, TRANSITION_NOTICE, GEN_RESPONSE, CONFIRM_PROMPT >>

(***************************************************************************)
(* C10. In every reachable profile state is_complete() is true if and only *)
(* if field_of_study, education_level, location and citizenship are all    *)
(* non-empty after trimming whitespace.                                    *)
(***************************************************************************)
NonEmptyAfterTrim(v) ==
    IF v.t = "str" THEN \E i \in 1..Len(v.s) : v.s[i] \notin Whitespace ELSE Truthy(v)

C10_IsCompleteIffRequired ==
    is_complete(user_profile) =
        IF \A i \in 1..4 : NonEmptyAfterTrim(user_profile[RequiredFields[i]])
        THEN "true" ELSE "false"

(***************************************************************************)
(* C11. Over every sequence of extraction deltas the list fields           *)
(* research_interests and extracurriculars only grow: every item a list    *)
(* field holds before a merge it still holds after the merge, whatever     *)
(* value the delta carries for that field.                                 *)
(***************************************************************************)
ListFields == {"research_interests", "extracurriculars"}

C11_ListFieldsOnlyGrow ==
    [][extracted'.kind = "object" =>
          \A f \in ListFields : user_profile[f].l \subseteq user_profile'[f].l]_vars

(***************************************************************************)
(* C12. A merge applies exactly the fields of the delta that are present   *)
(* and truthy: such a scalar field takes the delta's value, such a list    *)
(* field becomes the union of its items and the delta's items, and every   *)
(* field that is absent from the delta or falsy in it keeps its value.     *)
(***************************************************************************)
DeltaGives(delta, f) == \E i \in 1..Len(delta) : delta[i].k = f /\ Truthy(delta[i].v)
DeltaValue(delta, f) ==
    delta[CHOOSE i \in 1..Len(delta) : delta[i].k = f /\ Truthy(delta[i].v)].v

MergedField(p, delta, f) ==
    IF ~DeltaGives(delta, f) THEN p[f]
    ELSE IF f \in ListFields THEN ListV(p[f].l \cup DeltaValue(delta, f).l)
    ELSE DeltaValue(delta, f)

C12_MergeAppliesTruthyFields ==
    [][extracted'.kind = "object" =>
          \A f \in ProfileFields :
             user_profile'[f] = MergedField(user_profile, extracted'.delta, f)]_vars

(***************************************************************************)
(* C13. A failed extraction is never fatal: when the extraction call       *)
(* raises or its answer is no JSON object, the profile is left as it was   *)
(* and the turn goes on as with an empty delta: without the completion     *)
(* marker it answers the profiler's text and stays in PROFILING, with the  *)
(* marker it goes on to the search.                                        *)
(***************************************************************************)
ExtractionFailed(x) == x.kind \in {"fail", "garbage", "nonobject"}

C18_ExtractionBeforeGeneration ==
    [][(handler' = "profiler_agent" /\ HasCall(calls', "generate", "profiler")) =>
          /\ calls'[1].arg = "extraction"
          /\ extracted' # NoExtraction]_vars

(***************************************************************************)
(* C19. The conversation state is always PROFILING or RESPONDING: no       *)
(* sequence of turns reaches SEARCHING or COMPLETE, and once a session is  *)
(* in RESPONDING no turn of it returns it to PROFILING.                    *)
(***************************************************************************)
\* the step is a turn of the session that was there before it
TurnOfSession == endpoint' = "chat" /\ uuids' = uuids /\ http_status' # 404

C19_OnlyProfilingThenResponding ==
    [][/\ state \in {PROFILING, RESPONDING}
       /\ state' \in {PROFILING, RESPONDING}
       /\ (TurnOfSession /\ state = RESPONDING) => state' = RESPONDING]_vars

\* a session in RESPONDING has answered its third message, the last of them
\* a follow-up
C19_Witness ==
    /\ state = RESPONDING
    /\ handler = "_handle_followup"
    /\ http_status = 200
    /\ session_id \in DOMAIN sessions
    /\ sessions[session_id].message_count = 3

(***************************************************************************)
(* C20. A turn handed to the follow-up handling leaves the state, the      *)
(* profile, the stored bundle and the pending confirmation as they were,   *)
(* whether its generation call returns or not.                             *)
(***************************************************************************)
C20_FollowupChangesNothing ==
    [][handler' = "_handle_followup" =>
          /\ state' = state
          /\ user_profile' = user_profile
          /\ search_results' = search_results
          /\ pending_confirmation' = pending_confirmation]_vars

\* a follow-up was answered while a bundle was stored and the confirmation
\* was still pending
C20_Witness ==
    /\ handler = "_handle_followup"
    /\ reply = << GEN_FOLLOWUP >>
    /\ state = RESPONDING
    /\ search_results # <<>>
    /\ pending_confirmation = APPLICATION_SUPPORT

(***************************************************************************)
(* C14. After a sweep, every session whose last activity lies more than    *)
(* SESSION_TIMEOUT (2 hours) before the sweep is gone from the registry,   *)
(* and every session whose last activity lies no more than that before it  *)
(* is still there: a session idle for 3 hours is absent, a session active  *)
(* 1 hour ago is present.                                                  *)
(***************************************************************************)
Swept == LAST_CLEANUP' # LAST_CLEANUP

C14_SweepDropsExpiredOnly ==
    [][Swept =>
          \A id \in DOMAIN sessions :
             IF now' - sessions[id].last_activity > SESSION_TIMEOUT
             THEN id \notin DOMAIN sessions'
             ELSE id \in DOMAIN sessions']_vars

\* the sweep of a statistics request has deleted a session idle for 3 hours
\* and left the session active 1 hour before
C14_Witness ==
    /\ endpoint = "get_session_stats"
    /\ LAST_CLEANUP = now
    /\ \E e \in expired_sessions : e.idle = 12
    /\ \E id \in DOMAIN sessions : now - sessions[id].last_activity = 4

(***************************************************************************)
(* C15. A lookup (a chat request naming the session, get_profile, reset)   *)
(* of a session whose last activity is more than 2 hours in the past       *)
(* reports session-not-found; the session is not returned and its last     *)
(* activity is not refreshed.                                              *)
(***************************************************************************)
Lookups == {"chat", "get_profile", "reset_session"}

\* the last request looked up session id, which the registry held
LookedUp(id) ==
    /\ endpoint' \in Lookups
    /\ session_id' = id
    /\ id \in DOMAIN sessions

C15_ExpiredLookupNotFound ==
    [][\A id \in DOMAIN sessions :
          (LookedUp(id) /\ now' - sessions[id].last_activity > SESSION_TIMEOUT) =>
             /\ http_status' = 404
             /\ id \notin DOMAIN sessions']_vars

(***************************************************************************)
(* C15, amended.  A lookup of a session idle for more than 2 hours reports *)
(* session-not-found exactly when the sweep is due, i.e. the last sweep    *)
(* (or the load) lies at least 30 minutes back; then the session is        *)
(* deleted.  Otherwise the session is returned and its last activity       *)
(* refreshed.  A session idle for more than 2 hours 30 minutes is never    *)
(* returned.                                                               *)
(***************************************************************************)
C15_ExpiredLookupNotFoundWhenSweepDue ==
    [][\A id \in DOMAIN sessions :
          (LookedUp(id) /\ now' - sessions[id].last_activity > SESSION_TIMEOUT) =>
             /\ IF now' - LAST_CLEANUP >= CLEANUP_INTERVAL
                THEN http_status' = 404 /\ id \notin DOMAIN sessions'
                ELSE http_status' = 200 /\ sessions'[id].last_activity = now'
             /\ now' - sessions[id].last_activity > SESSION_TIMEOUT + CLEANUP_INTERVAL
                   => http_status' = 404]_vars

\* a profile request for a session idle for more than 2 hours 30 minutes
\* was answered session-not-found
C15_Witness ==
    /\ endpoint = "get_profile"
    /\ http_status = 404
    /\ \E e \in expired_sessions :
          e.id = session_id /\ e.idle > SESSION_TIMEOUT + CLEANUP_INTERVAL

(***************************************************************************)
(* C17. A chat request, get_profile or reset that names an id the registry *)
(* does not hold is answered session-not-found, creates no session, and    *)
(* leaves every session of the registry and its dialogue state as it was.  *)
(***************************************************************************)
C17_UnknownIdNotFound ==
    [][(endpoint' \in Lookups /\ uuids' = uuids /\ session_id' \notin DOMAIN sessions) =>
          /\ http_status' = 404
          /\ DOMAIN sessions' \subseteq DOMAIN sessions
          /\ \A id \in DOMAIN sessions' : sessions'[id] = sessions[id]
          /\ state' = state
          /\ user_profile' = user_profile
          /\ search_results' = search_results
          /\ pending_confirmation' = pending_confirmation]_vars

\* a chat request with an id that was never given out, while the registry
\* held a session in the middle of its dialogue
C17_Witness ==
    /\ endpoint = "chat"
    /\ session_id = UNKNOWN_ID
    /\ http_status = 404
    /\ BotSessions # {}
    /\ state = RESPONDING
    /\ pending_confirmation = APPLICATION_SUPPORT

(***************************************************************************)
(* C16. A session's bot is mutated by one turn at a time, enforced by the  *)
(* registry's lock: a request that is in bot.process_message holds         *)
(* session_lock.                                                           *)
(***************************************************************************)
C16_ProcessingHoldsLock ==
    \A r \in Requests : At(r, "process_message") => session_lock = r

(***************************************************************************)
(* C16, amended.  Of two chat requests on one session, the turn of one     *)
(* (from the session's lookup to the counter's update) is over before the  *)
(* turn of the other begins, because the event loop runs the handler to    *)
(* its end; session_lock is held for the lookup and for the update only,   *)
(* not while the bot processes the message.                                *)
(***************************************************************************)
InTurn(r) == in_flight[r].at \in {"process_message", "update", "updating"}

C16_OneTurnAtATime ==
    /\ \A r1, r2 \in Requests :
          (r1 # r2 /\ InTurn(r1) /\ InTurn(r2)) => in_flight[r1].session_id # in_flight[r2].session_id
    /\ \A r \in Requests : At(r, "process_message") => session_lock = Unlocked

\* a request is in process_message on a session on which another request
\* has had its turn counted
C16_Witness ==
    \E r1, r2 \in Requests :
       /\ r1 # r2
       /\ At(r1, "done")
       /\ At(r2, "process_message")
       /\ in_flight[r1].session_id = in_flight[r2].session_id
       /\ in_flight[r2].session_id \in DOMAIN sessions
       /\ sessions[in_flight[r2].session_id].message_count >= 1

(***************************************************************************)
(* C21. A key of the delta that is none of the nine profile field names is *)
(* ignored: the merge raises no error on it and changes no part of the     *)
(* profile object, so every part of the profile that no field name of the  *)
(* delta names is after the merge what it was before.                      *)
(***************************************************************************)
DeltaFieldNames(delta) ==
    { delta[i].k : i \in 1..Len(delta) } \cap ProfileFields

C21_UnknownKeysIgnored ==
    [][extracted'.kind = "object" =>
          \A a \in DOMAIN user_profile \ DeltaFieldNames(extracted'.delta) :
             user_profile'[a] = user_profile[a]]_vars

(***************************************************************************)
(* C22. The sweep scans the registry at most once per 30 minutes: a call   *)
(* of cleanup_expired_sessions that scans comes at least 30 minutes after  *)
(* the scan before it (or the start of the service), whatever requests     *)
(* arrive in whatever order and at whatever times.                         *)
(***************************************************************************)
C22_ScansHalfAnHourApart ==
    [][Swept => now' - LAST_CLEANUP >= CLEANUP_INTERVAL]_vars

\* two scans that deleted: both sessions ever created are gone, and the scan
\* of the request just answered deleted one of them only
C22_Witness ==
    /\ LAST_CLEANUP = now
    /\ uuids = 2
    /\ DOMAIN sessions = {}
    /\ Cardinality(expired_sessions) = 1

(***************************************************************************)
(* C23. After reset(id) on a session the registry holds, the same id is    *)
(* still in the registry and its dialogue is in the initial configuration: *)
(* state PROFILING, empty profile, no search bundle, no pending            *)
(* confirmation, message counter 0.  A reset of an id the registry does    *)
(* not hold is answered not-found and changes nothing: no session is       *)
(* created or altered, and the registry loses nothing but what the sweep   *)
(* of that access finds expired.                                           *)
(***************************************************************************)
C23_ResetRestoresInitial ==
    [][endpoint' = "reset_session" =>
          /\ session_id' \notin DOMAIN sessions => http_status' = 404
          /\ http_status' \in {200, 404}
          /\ http_status' = 200 =>
                /\ session_id' \in DOMAIN sessions
                /\ session_id' \in DOMAIN sessions'
                /\ DOMAIN sessions' \subseteq DOMAIN sessions
                /\ state' = PROFILING
                /\ user_profile' = UserProfile
                /\ search_results' = <<>>
                /\ pending_confirmation' = None
                /\ sessions'[session_id'].message_count = 0
          /\ http_status' = 404 =>
                /\ session_id' \notin DOMAIN sessions'
                /\ DOMAIN sessions' \subseteq DOMAIN sessions
                /\ \A id \in DOMAIN sessions' : sessions'[id] = sessions[id]
                /\ \A id \in DOMAIN sessions \ DOMAIN sessions' :
                      now' - sessions[id].last_activity > SESSION_TIMEOUT
                /\ uuids' = uuids
                /\ state' = state
                /\ user_profile' = user_profile
                /\ search_results' = search_results
                /\ pending_confirmation' = pending_confirmation]_vars

\* the third request to a session, after two turns, was a reset: the session
\* is in the registry with the new dialogue
C23_Witness ==
    /\ endpoint = "reset_session"
    /\ http_status = 200
    /\ served = 3
    /\ uuids = 1
    /\ session_id \in DOMAIN sessions
    /\ sessions[session_id].message_count = 0
    /\ state = PROFILING
    /\ user_profile = UserProfile

\* a reset of an id the registry does not hold, while the session created
\* last was in the middle of its dialogue
C23_UnknownWitness ==
    /\ endpoint = "reset_session"
    /\ http_status = 404
    /\ BotSessions # {}
    /\ state = RESPONDING

(***************************************************************************)
(* C24. In every reachable state of a session, a set pending-confirmation  *)
(* flag implies that the conversation state is RESPONDING: the             *)
(* confirmation sub-dialogue is never active during a PROFILING turn.      *)
(***************************************************************************)
C24_PendingOnlyWhenResponding ==
    pending_confirmation # None => state = RESPONDING

\* the search and the synthesis succeeded: the offer of application support
\* is pending
C24_Witness ==
    /\ pending_confirmation = APPLICATION_SUPPORT
    /\ state = RESPONDING
    /\ search_results # <<>>
    /\ http_status = 200

(***************************************************************************)
(* C25. Between the creation (or reset) of a session and its destruction   *)
(* the search step runs in at most one turn: a turn runs it only when it   *)
(* leaves PROFILING for RESPONDING, and a turn that starts in RESPONDING   *)
(* stays there, makes no search call, stores no search bundle and does not *)
(* set the pending-confirmation flag.  So once the search of that one turn *)
(* has failed, no later turn stores a bundle or sets the flag.             *)
(***************************************************************************)
AnySearch(cs) == \E i \in 1..Len(cs) : cs[i].svc = "search"

C25_SearchInOneTurnOnly ==
    [][endpoint' = "chat" =>
          /\ AnySearch(calls') =>
                /\ state' = RESPONDING
                /\ uuids' = uuids => state = PROFILING
          /\ (TurnOfSession /\ state = RESPONDING) =>
                /\ state' = RESPONDING
                /\ ~AnySearch(calls')
                /\ search_results' = search_results
                /\ pending_confirmation = None => pending_confirmation' = None]_vars

\* a follow-up was answered in a session whose search had failed: no bundle,
\* no offer pending
C25_Witness ==
    /\ state = RESPONDING
    /\ search_results = <<>>
    /\ pending_confirmation = None
    /\ handler = "_handle_followup"
    /\ http_status = 200
    /\ session_id \in DOMAIN sessions
    /\ sessions[session_id].message_count >= 2

(***************************************************************************)
(* C26. A session's message counter is the number of turns completed       *)
(* successfully since the session was created or last reset: it is 0 at    *)
(* creation and after a reset, a successful turn adds 1 to it, and a turn  *)
(* that ends in an error, like every other request, leaves it as it was.   *)
(* The message id returned for a turn is the session id joined with the    *)
(* counter's value after that turn's increment.                            *)
(***************************************************************************)
CompletedTurn(id) == endpoint' = "chat" /\ session_id' = id /\ http_status' = 200

C26_CounterCountsCompletedTurns ==
    [][/\ \A id \in DOMAIN sessions' :
             sessions'[id].message_count =
                IF id \notin DOMAIN sessions
                THEN (IF CompletedTurn(id) THEN 1 ELSE 0)
                ELSE IF endpoint' = "reset_session" /\ session_id' = id /\ http_status' = 200
                THEN 0
                ELSE IF CompletedTurn(id)
                THEN sessions[id].message_count + 1
                ELSE sessions[id].message_count
       /\ IF endpoint' = "chat" /\ http_status' = 200
          THEN message_id' = << session_id', "_", sessions'[session_id'].message_count >>
          ELSE message_id' = <<>>]_vars

\* the first turn of a session to complete is a follow-up: the turn that
\* took the dialogue to RESPONDING ended in an error and was not counted
C26_Witness ==
    /\ endpoint = "chat"
    /\ http_status = 200
    /\ handler = "_handle_followup"
    /\ session_id \in DOMAIN sessions
    /\ sessions[session_id].message_count = 1
    /\ message_id = << session_id, "_", 1 >>

====
